---- MODULE Spec2Model ----
(***************************************************************************)
(* pyRavenMatrices: the element structure and its drawing (element.py),    *)
(* the transformation engine (transformation.py) and target addressing,    *)
(* modelled on an object heap.                                             *)
(*                                                                         *)
(* A heap is a sequence of node objects; an object's address is its index. *)
(* Child slots hold addresses, so two slots may hold the same object and   *)
(* an in-place list.append is visible through every alias.                 *)
(***************************************************************************)
EXTENDS Integers, Sequences, FiniteSets, TLC

\* ------------------------------------------------------------------ bounds

\* Largest number of nodes of an input tree handed to Transformation.__call__.
MaxNodes == 4
\* Largest number of (condition, action) pairs of a Transformation.
MaxRules == 2
\* Largest number of positional arguments a caller passes to a constructor.
MaxArgs == 3
\* Largest number of constructor calls of a construction session.
MaxBuilt == 2
\* Largest number of nodes of a tree handed to a direct call.
MaxOpNodes == 6
\* Largest number of nodes of a tree two callers transform at the same time.
MaxParNodes == 3
\* Largest number of pairs of the second caller's Transformation.
MaxOtherRules == 1

\* ------------------------------------------------------------- node objects

Unset == "unset"

\* A node object: its concrete type and its instance dictionary, vars(self).
\* A key absent from vars(self) is Unset (_routine, _decorator, _params),
\* 0 (element) or <<>> (modifiers, elements).
Node(k, r, d, p, e, ms, es) ==
    [kind |-> k, routine |-> r, decorator |-> d, params |-> p,
     element |-> e, modifiers |-> ms, elements |-> es]

BasicNode(r, p) == Node("BasicElement", r, Unset, p, 0, <<>>, <<>>)
ModifierNode(d, p) == Node("ElementModifier", Unset, d, p, 0, <<>>, <<>>)
EmptyNode == Node("EmptyElement", Unset, Unset, Unset, 0, <<>>, <<>>)

\* isinstance(x, Element), isinstance(x, ElementModifier)
ElementKinds == {"BasicElement", "EmptyElement", "ModifiedElement", "CompositeElement"}
IsElement(h, a) == h[a].kind \in ElementKinds
IsModifier(h, a) == h[a].kind = "ElementModifier"
\* bool(x): EmptyElement.__bool__ returns False, every other node is truthy.
Truthy(h, a) == h[a].kind # "EmptyElement"

\* Results of a call: the heap after it, the returned object, the exception.
Ok(h, r) == [h |-> h, r |-> r, err |-> "ok"]
Raise(h, e) == [h |-> h, r |-> 0, err |-> e]
\* Allocation of a new object.
Push(h, node) == Ok(Append(h, node), Len(h) + 1)

\* ------------------------------------------------------ ElementNode.__eq__

RECURSIVE ElementNode_eq(_, _, _)
\* list.__eq__: same length and equal position by position.
ListEq(h, s, t) ==
    /\ Len(s) = Len(t)
    /\ \A i \in 1..Len(s) : ElementNode_eq(h, s[i], t[i])

\* vars(self) == vars(other): the same keys with equal values.
VarsEq(h, a, b) ==
    /\ h[a].routine = h[b].routine
    /\ h[a].decorator = h[b].decorator
    /\ h[a].params = h[b].params
    /\ (h[a].element = 0) = (h[b].element = 0)
    /\ (h[a].element # 0 => ElementNode_eq(h, h[a].element, h[b].element))
    /\ ListEq(h, h[a].modifiers, h[b].modifiers)
    /\ ListEq(h, h[a].elements, h[b].elements)

IdentityEq(h, a, b) == a = b
TypeOnlyEq(h, a, b) == h[a].kind = h[b].kind

ElementNode_eq(h, a, b) ==
    /\ h[a].kind = h[b].kind
    /\ VarsEq(h, a, b)

\* x in lst
In(h, a, lst) == \E i \in 1..Len(lst) : ElementNode_eq(h, lst[i], a)

\* ------------------------------------------------------------ constructors

\* ModifiedElement(element, modifier, *modifiers)
ModifiedElementLoose(h, args) ==
    IF Len(args) < 1 THEN Raise(h, "TypeError")
    ELSE Push(h, Node("ModifiedElement", Unset, Unset, Unset, args[1],
                      Tail(args), <<>>))
ModifiedElement(h, args) ==
    IF Len(args) < 2 THEN Raise(h, "TypeError")
    ELSE Push(h, Node("ModifiedElement", Unset, Unset, Unset, args[1],
                      <<args[2]>> \o SubSeq(args, 3, Len(args)), <<>>))

\* CompositeElement(element_1, element_2, *elements)
CompositeElement(h, args) ==
    IF Len(args) < 2 THEN Raise(h, "TypeError")
    ELSE Push(h, Node("CompositeElement", Unset, Unset, Unset, 0, <<>>,
                      <<args[1], args[2]>> \o SubSeq(args, 3, Len(args))))

\* EmptyElement()
EmptyElement(h) == Push(h, EmptyNode)

\* ------------------------------------------------------------ copy.deepcopy

RECURSIVE deepcopy(_, _), deepcopy_list(_, _)
\* A fresh object for every node reachable from a.
deepcopy(h, a) ==
    LET e == IF h[a].element = 0 THEN [h |-> h, r |-> 0]
             ELSE deepcopy(h, h[a].element)
        ms == deepcopy_list(e.h, h[a].modifiers)
        es == deepcopy_list(ms.h, h[a].elements)
    IN  Push(es.h, [h[a] EXCEPT !.element = e.r, !.modifiers = ms.rs,
                                !.elements = es.rs])

deepcopy_list(h, lst) ==
    IF lst = <<>> THEN [h |-> h, rs |-> <<>>]
    ELSE LET c == deepcopy(h, Head(lst))
             rest == deepcopy_list(c.h, Tail(lst))
         IN  [h |-> rest.h, rs |-> <<c.r>> \o rest.rs]

\* ------------------------------------------------------------ get_subtrees

\* if not x in output: output.append(x)
AppendAlways(h, out, x) == Append(out, x)
AppendNew(h, out, x) == IF In(h, x, out) THEN out ELSE Append(out, x)

RECURSIVE AppendAllNew(_, _, _)
AppendAllNew(h, out, lst) ==
    IF lst = <<>> THEN out
    ELSE AppendAllNew(h, AppendNew(h, out, Head(lst)), Tail(lst))

RECURSIVE get_subtrees_loop(_, _, _)
\* for sub in output: the list grows while it is iterated, i is the position.
get_subtrees_loop(h, out, i) ==
    IF i > Len(out) THEN [out |-> out, err |-> "ok"]
    ELSE LET sub == out[i] IN
         CASE h[sub].kind \in {"BasicElement", "ElementModifier"} ->
                get_subtrees_loop(h, out, i + 1)
           [] h[sub].kind = "ModifiedElement" ->
                get_subtrees_loop(
                    h,
                    AppendAllNew(h, AppendNew(h, out, h[sub].element),
                                 h[sub].modifiers),
                    i + 1)
           [] h[sub].kind = "CompositeElement" ->
                get_subtrees_loop(h, AppendAllNew(h, out, h[sub].elements), i + 1)
           [] OTHER -> [out |-> out, err |-> "TypeError"]

get_subtrees(h, element) == get_subtrees_loop(h, <<element>>, 1)

\* ------------------------------------------------------ add, remove, replace

\* output = copy.deepcopy(element)
AddNoCopy(h, element) == Ok(h, element)
AddCopy(h, element) == deepcopy(h, element)

\* add without the two appending branches: every addition wraps.
AddWrapping(h, element, addition) ==
    LET c == AddCopy(h, element)
        g == c.h
        output == c.r
    IN  IF /\ g[output].kind \in {"BasicElement", "ModifiedElement", "CompositeElement"}
           /\ IsElement(g, addition)
        THEN CompositeElement(g, <<output, addition>>)
        ELSE IF /\ g[output].kind \in {"BasicElement", "ModifiedElement", "CompositeElement"}
                /\ IsModifier(g, addition)
        THEN ModifiedElement(g, <<output, addition>>)
        ELSE Ok(g, output)

add(h, element, addition) ==
    LET c == AddCopy(h, element)
        g == c.h
        output == c.r
    IN  IF /\ g[output].kind \in {"BasicElement", "ModifiedElement"}
           /\ IsElement(g, addition)
        THEN CompositeElement(g, <<output, addition>>)
        ELSE IF /\ g[output].kind \in {"BasicElement", "CompositeElement"}
                /\ IsModifier(g, addition)
        THEN ModifiedElement(g, <<output, addition>>)
        ELSE IF g[output].kind = "CompositeElement" /\ IsElement(g, addition)
        THEN Ok([g EXCEPT ![output].elements = Append(@, addition)], output)
        ELSE IF g[output].kind = "ModifiedElement" /\ IsModifier(g, addition)
        THEN Ok([g EXCEPT ![output].modifiers = Append(@, addition)], output)
        ELSE Ok(g, output)

\* remove that returns the element it was given.
RemoveNothing(h, element) == Ok(h, element)
remove(h, element) == EmptyElement(h)

\* replace without its two capability checks.
ReplaceUnchecked(h, element, replacement) == Ok(h, replacement)

replace(h, element, replacement) ==
    IF IsElement(h, element) /\ ~IsElement(h, replacement)
    THEN Raise(h, "TypeError")
    ELSE IF IsModifier(h, element) /\ ~IsModifier(h, replacement)
    THEN Raise(h, "TypeError")
    ELSE Ok(h, replacement)

\* op applied to its own result a second time.
ApplyOpTwice(h, op, element, args) ==
    LET once == CASE op = "add" -> add(h, element, args[1])
                  [] op = "remove" -> remove(h, element)
                  [] op = "replace" -> replace(h, element, args[1])
    IN  IF once.err # "ok" THEN once
        ELSE CASE op = "add" -> add(once.h, once.r, args[1])
               [] op = "remove" -> remove(once.h, once.r)
               [] op = "replace" -> replace(once.h, once.r, args[1])

\* op(element, *args)
ApplyOp(h, op, element, args) ==
    CASE op = "add" -> add(h, element, args[1])
      [] op = "remove" -> remove(h, element)
      [] op = "replace" -> replace(h, element, args[1])

\* ---------------------------------------------------------------- transform

\* The node a ModifiedElement becomes, given its transformed base and the
\* modifiers kept.
ModifiedResult(h, new_subelt, new_mods) ==
    IF new_mods # <<>> THEN ModifiedElement(h, <<new_subelt>> \o new_mods)
    ELSE Ok(h, new_subelt)

\* isinstance(elt, Element) and not isinstance(elt, EmptyElement)
AnyElement(h, elt) == IsElement(h, elt)
SurvivingElement(h, elt) == IsElement(h, elt) /\ h[elt].kind # "EmptyElement"

\* The node a CompositeElement becomes, given the surviving elements.
CompositeNoCollapse(h, new_elts) ==
    IF Len(new_elts) > 0 THEN
        Push(h, Node("CompositeElement", Unset, Unset, Unset, 0, <<>>, new_elts))
    ELSE EmptyElement(h)
CompositeResult(h, new_elts) ==
    IF Len(new_elts) > 1 THEN CompositeElement(h, new_elts)
    ELSE IF Len(new_elts) = 1 THEN Ok(h, new_elts[Len(new_elts)])
    ELSE EmptyElement(h)

\* if isinstance(tfd, ElementModifier)
AnyResult(h, tfd) == TRUE
KeptModifier(h, tfd) == IsModifier(h, tfd)

\* if new_subelt and isinstance(new_subelt, Element)
BaseIsElement(h, new_subelt) == IsElement(h, new_subelt)
BaseSurvives(h, new_subelt) == Truthy(h, new_subelt) /\ IsElement(h, new_subelt)

RECURSIVE transform(_, _, _, _, _), transform_all(_, _, _, _, _)

\* [transform(x, op, loc, *args) for x in lst], left to right.
transform_all(h, lst, op, loc, args) ==
    IF lst = <<>> THEN [h |-> h, rs |-> <<>>, err |-> "ok"]
    ELSE LET t == transform(h, Head(lst), op, loc, args) IN
         IF t.err # "ok" THEN [h |-> t.h, rs |-> <<>>, err |-> t.err]
         ELSE LET rest == transform_all(t.h, Tail(lst), op, loc, args) IN
              [h |-> rest.h, rs |-> <<t.r>> \o rest.rs, err |-> rest.err]

transform(h, element, op, loc, args) ==
    IF ElementNode_eq(h, element, loc) THEN ApplyOp(h, op, element, args)
    ELSE CASE h[element].kind \in {"BasicElement", "ElementModifier"} ->
                Ok(h, element)
           [] h[element].kind = "ModifiedElement" ->
                LET s == transform(h, h[element].element, op, loc, args) IN
                IF s.err # "ok" THEN s
                ELSE IF BaseSurvives(s.h, s.r)
                THEN LET m == transform_all(s.h, h[element].modifiers, op, loc, args)
                     IN  IF m.err # "ok" THEN Raise(m.h, m.err)
                         ELSE ModifiedResult(
                                  m.h, s.r,
                                  SelectSeq(m.rs, LAMBDA x : KeptModifier(m.h, x)))
                ELSE EmptyElement(s.h)
           [] h[element].kind = "CompositeElement" ->
                LET m == transform_all(h, h[element].elements, op, loc, args) IN
                IF m.err # "ok" THEN Raise(m.h, m.err)
                ELSE CompositeResult(
                         m.h,
                         SelectSeq(m.rs, LAMBDA x : SurvivingElement(m.h, x)))
           \* no branch binds ret for any other node: return ret fails
           [] OTHER -> Raise(h, "UnboundLocalError")

\* ------------------------------------------------------------ tree values

\* The tree an object unfolds to: its type, its fields, and its children's
\* trees slot by slot. No address occurs in it.
TreeV(k, r, d, p, e, ms, es) ==
    [kind |-> k, routine |-> r, decorator |-> d, params |-> p,
     element |-> e, modifiers |-> ms, elements |-> es]
BasicV(r, p) == TreeV("BasicElement", r, Unset, p, <<>>, <<>>, <<>>)
ModifierV(d, p) == TreeV("ElementModifier", Unset, d, p, <<>>, <<>>, <<>>)
EmptyV == TreeV("EmptyElement", Unset, Unset, Unset, <<>>, <<>>, <<>>)
ModifiedV(b, ms) == TreeV("ModifiedElement", Unset, Unset, Unset, <<b>>, ms, <<>>)
CompositeV(es) == TreeV("CompositeElement", Unset, Unset, Unset, <<>>, <<>>, es)

RECURSIVE Val(_, _)
Val(h, a) ==
    TreeV(h[a].kind, h[a].routine, h[a].decorator, h[a].params,
          IF h[a].element = 0 THEN <<>> ELSE <<Val(h, h[a].element)>>,
          [i \in 1..Len(h[a].modifiers) |-> Val(h, h[a].modifiers[i])],
          [i \in 1..Len(h[a].elements) |-> Val(h, h[a].elements[i])])

\* The trees of the nodes reachable from a tree, the tree itself included.
RECURSIVE NodesV(_)
NodesV(v) ==
    {v} \cup UNION {NodesV(v.element[i]) : i \in 1..Len(v.element)}
        \cup UNION {NodesV(v.modifiers[i]) : i \in 1..Len(v.modifiers)}
        \cup UNION {NodesV(v.elements[i]) : i \in 1..Len(v.elements)}

\* ------------------------------------------------------------ caller inputs

\* Leaves a caller builds input trees from, and leaves that occur in no input.
Basics == {BasicV("ellipse", "p1"), BasicV("triangle", "p1")}
Modifiers == {ModifierV("scale", "p1"), ModifierV("rotation", "p1")}
FreshBasic == BasicV("rectangle", "p1")
FreshModifier == ModifierV("shading", "p1")

RECURSIVE ElementsOfSize(_), ForestsOfSize(_, _)
\* The well-formed element trees of exactly n nodes.
ElementsOfSize(n) ==
    IF n = 1 THEN Basics
    ELSE UNION {{ModifiedV(b, ms) : b \in ElementsOfSize(n - 1 - j),
                                    ms \in [1..j -> Modifiers]} : j \in 1..(n - 2)}
         \cup UNION {{CompositeV(f) : f \in ForestsOfSize(n - 1, k)} : k \in 2..(n - 1)}
\* The sequences of k element trees of n nodes in all.
ForestsOfSize(n, k) ==
    IF k = 0 THEN (IF n = 0 THEN {<<>>} ELSE {})
    ELSE UNION {{<<e>> \o f : e \in ElementsOfSize(s),
                              f \in ForestsOfSize(n - s, k - 1)} : s \in 1..(n - k + 1)}

InputTrees == UNION {ElementsOfSize(n) : n \in 1..MaxNodes}

RECURSIVE Build(_, _), BuildList(_, _)
\* The caller's construction of a tree, leaves first, by the constructors.
Build(h, v) ==
    CASE v.kind = "BasicElement" -> Push(h, BasicNode(v.routine, v.params))
      [] v.kind = "ElementModifier" -> Push(h, ModifierNode(v.decorator, v.params))
      [] v.kind = "EmptyElement" -> EmptyElement(h)
      [] v.kind = "ModifiedElement" ->
            LET b == Build(h, v.element[1])
                ms == BuildList(b.h, v.modifiers)
            IN  ModifiedElement(ms.h, <<b.r>> \o ms.rs)
      [] v.kind = "CompositeElement" ->
            LET es == BuildList(h, v.elements) IN CompositeElement(es.h, es.rs)
BuildList(h, vs) ==
    IF vs = <<>> THEN [h |-> h, rs |-> <<>>]
    ELSE LET b == Build(h, Head(vs))
             rest == BuildList(b.h, Tail(vs))
         IN  [h |-> rest.h, rs |-> <<b.r>> \o rest.rs]

\* The objects a caller holds before it builds a Transformation for an input
\* tree t: the tree, a second tree built independently from the same values,
\* and two fresh leaves.
CallerHeap(t) ==
    LET e == Build(<<>>, t)
        c == Build(e.h, t)
        b == Build(c.h, FreshBasic)
        m == Build(b.h, FreshModifier)
    IN  [h |-> m.h, element |-> e.r, copy |-> c.r, basic |-> b.r, modifier |-> m.r]

\* One object for every distinct pattern: the nodes of the independent copy
\* and the fresh leaves.
PatternObjects(c) ==
    {a \in (c.element + 1)..Len(c.h) :
        \A b \in (c.element + 1)..(a - 1) : Val(c.h, b) # Val(c.h, a)}

\* The (condition, (op, loc, *args)) pairs a caller may give: every pattern as
\* the location; as the condition the whole tree, the location or the fresh
\* basic element; a fresh leaf as the addition; a fresh leaf or the input
\* tree's own root object as the replacement.
RulesOf(c) ==
    LET pats == PatternObjects(c)
        fresh == {c.basic, c.modifier}
        Actions(l) ==
            [op : {"remove"}, loc : {l}, args : {<<>>}]
            \cup [op : {"add"}, loc : {l}, args : {<<x>> : x \in fresh}]
            \cup [op : {"replace"}, loc : {l},
                  args : {<<x>> : x \in fresh \cup {c.element}}]
    IN  UNION {{[condition |-> cond, op |-> a.op, loc |-> a.loc, args |-> a.args] :
                    cond \in {c.copy, l, c.basic}, a \in Actions(l)} : l \in pats}

\* ------------------------------------------------- Transformation.__call__

VARIABLES
    heap,       \* the object heap
    element,    \* the argument of __call__: the input tree's root object
    pairs,      \* self.pairs
    pc,         \* "call", "loop", "done" (returned), "raised"
    idx,        \* position of the for loop in self.pairs
    output,     \* the local output; the returned object when pc = "done"
    exc,        \* the exception that ended the call, "ok" if none
    fired,      \* per pair met so far: did its condition hold
    subtrees,   \* the last list get_subtrees(element) returned
    pre,        \* the input tree as it was when __call__ was entered
    prev,       \* the object output was bound to before the last iteration
    call,       \* construction session: the last call made, [fn, args]
    built,      \* construction session: the number of constructor calls made
    truth,      \* construction session: what the last __eq__ returned
    drawn,      \* the calls a draw_in_context made, in the order it made them
    targets,    \* the last list get_targets returned
    other,      \* a second caller of __call__ on the same input tree
    figure      \* generate_sandia_figure: its arguments, locals and samples

vars == <<heap, element, pairs, pc, idx, output, exc, fired, subtrees, pre,
          prev, call, built, truth, drawn, targets, other, figure>>

NoCall == [fn |-> "none", args |-> <<>>]
NoCaller == [pairs |-> <<>>, pc |-> "none", idx |-> 0, output |-> 0,
             exc |-> "ok", fired |-> <<>>, mid |-> FALSE]
NoFigure == [rotation_params |-> <<>>, restr_rot_params |-> <<>>,
             noncomposite_elements |-> <<>>, decorators |-> <<>>, zip |-> 0,
             sampled |-> <<>>]
session == <<call, built, truth, drawn, targets, other, figure>>

Init ==
    \E t \in InputTrees :
        LET c == CallerHeap(t) IN
        \E k \in 0..MaxRules :
            \E ps \in [1..k -> RulesOf(c)] :
                /\ heap = c.h
                /\ element = c.element
                /\ pairs = ps
                /\ pc = "call"
                /\ idx = 0
                /\ output = 0
                /\ exc = "ok"
                /\ fired = <<>>
                /\ subtrees = <<>>
                /\ pre = Val(c.h, c.element)
                /\ prev = 0
                /\ call = NoCall
                /\ built = 0
                /\ truth = FALSE
                /\ drawn = <<>>
                /\ targets = <<>>
                /\ other = NoCaller
                /\ figure = NoFigure

\* output = copy.deepcopy(element)
Enter ==
    /\ pc = "call"
    /\ LET c == deepcopy(heap, element) IN
        /\ heap' = c.h
        /\ output' = c.r
    /\ pc' = "loop"
    /\ idx' = 1
    /\ UNCHANGED <<element, pairs, exc, fired, subtrees, pre, prev, session>>

\* The tree an action is applied to.
ActionOnInput(out, elt) == elt
ActionTarget(out, elt) == out

\* The tree a condition is looked up in.
ConditionInOutput(out, elt) == out
ConditionTree(out, elt) == elt

\* One iteration of: for condition, action in self.pairs
Iterate ==
    /\ pc = "loop"
    /\ idx <= Len(pairs)
    /\ LET rule == pairs[idx]
           subs == get_subtrees(heap, ConditionTree(output, element))
       IN  IF subs.err # "ok"
           THEN /\ pc' = "raised"
                /\ exc' = subs.err
                /\ UNCHANGED <<heap, output, fired, subtrees, idx>>
           ELSE IF In(heap, rule.condition, subs.out)
           THEN LET t == transform(heap, ActionTarget(output, element),
                                   rule.op, rule.loc, rule.args)
                IN  /\ heap' = t.h
                    /\ subtrees' = subs.out
                    /\ fired' = Append(fired, TRUE)
                    /\ IF t.err # "ok"
                       THEN /\ pc' = "raised"
                            /\ exc' = t.err
                            /\ UNCHANGED <<output, idx>>
                       ELSE /\ output' = t.r
                            /\ idx' = idx + 1
                            /\ UNCHANGED <<pc, exc>>
           ELSE /\ subtrees' = subs.out
                /\ fired' = Append(fired, FALSE)
                /\ idx' = idx + 1
                /\ UNCHANGED <<heap, output, pc, exc>>
    /\ prev' = output
    /\ UNCHANGED <<element, pairs, pre, session>>

\* return output
Return ==
    /\ pc = "loop"
    /\ idx > Len(pairs)
    /\ pc' = "done"
    /\ UNCHANGED <<heap, element, pairs, idx, output, exc, fired, subtrees, pre,
                   prev, session>>

Next == Enter \/ Iterate \/ Return

Spec == Init /\ [][Next]_vars

\* ------------------------------------------------------ construction session

\* The leaves a session starts from: a drawn basic element, a bare
\* BasicElement(), a bare ElementModifier() and a modifier with a decorator.
LeafPool ==
    <<BasicNode("ellipse", "p1"), BasicNode(Unset, Unset),
      ModifierNode(Unset, Unset), ModifierNode("scale", "p1")>>

\* The argument lists of a constructor call: any objects, in any number.
ArgLists(h) == UNION {[1..k -> 1..Len(h)] : k \in 0..MaxArgs}

NodesInit ==
    /\ heap = LeafPool
    /\ pc = "session"
    /\ call = NoCall
    /\ built = 0
    /\ truth = FALSE
    /\ output = 0
    /\ exc = "ok"
    /\ element = 0
    /\ pairs = <<>>
    /\ idx = 0
    /\ fired = <<>>
    /\ subtrees = <<>>
    /\ pre = EmptyV
    /\ prev = 0
    /\ drawn = <<>>
    /\ targets = <<>>
    /\ other = NoCaller
    /\ figure = NoFigure

unused == <<drawn, targets, other, figure>>
idle == <<element, pairs, idx, fired, subtrees, pre, prev, unused>>

\* ModifiedElement(*args)
NewModified ==
    /\ pc = "session"
    /\ built < MaxBuilt
    /\ \E args \in ArgLists(heap) :
        LET r == ModifiedElement(heap, args) IN
        /\ heap' = r.h
        /\ output' = r.r
        /\ exc' = r.err
        /\ call' = [fn |-> "ModifiedElement", args |-> args]
    /\ built' = built + 1
    /\ UNCHANGED <<pc, truth, idle>>

\* CompositeElement(*args)
NewComposite ==
    /\ pc = "session"
    /\ built < MaxBuilt
    /\ \E args \in ArgLists(heap) :
        LET r == CompositeElement(heap, args) IN
        /\ heap' = r.h
        /\ output' = r.r
        /\ exc' = r.err
        /\ call' = [fn |-> "CompositeElement", args |-> args]
    /\ built' = built + 1
    /\ UNCHANGED <<pc, truth, idle>>

\* a == b, the last operation of the session
Compare ==
    /\ pc = "session"
    /\ \E a, b \in 1..Len(heap) :
        /\ truth' = ElementNode_eq(heap, a, b)
        /\ call' = [fn |-> "__eq__", args |-> <<a, b>>]
    /\ pc' = "end"
    /\ output' = 0
    /\ exc' = "ok"
    /\ UNCHANGED <<heap, built, idle>>

\* get_subtrees(a), the last operation of the session
Subtrees ==
    /\ pc = "session"
    /\ \E a \in 1..Len(heap) :
        LET r == get_subtrees(heap, a) IN
        /\ subtrees' = r.out
        /\ exc' = r.err
        /\ call' = [fn |-> "get_subtrees", args |-> <<a>>]
    /\ pc' = "end"
    /\ output' = 0
    /\ UNCHANGED <<heap, built, truth, element, pairs, idx, fired, pre, prev,
                   unused>>

NodesNext == NewModified \/ NewComposite \/ Compare \/ Subtrees

SpecNodes == NodesInit /\ [][NodesNext]_vars

\* ------------------------------------------------------------------ drawing

\* A call made while a tree is drawn: of a modifier's decorator ("decorate"),
\* of a basic element's routine ("routine"), or of the surface by the wrapper
\* a decorator returned ("save", the decorator's own name, "restore").
Event(op, name, params, ctx, cell_structure) ==
    [op |-> op, name |-> name, params |-> params, ctx |-> ctx,
     cell_structure |-> cell_structure]

\* A drawing routine: the bound method draw_in_context of a node, or the
\* wrapper a decorator returned for an inner routine.
Bound(node) == [node |-> node, decorator |-> Unset, params |-> Unset, inner |-> <<>>]
Wrapper(decorator, params, routine) ==
    [node |-> 0, decorator |-> decorator, params |-> params, inner |-> <<routine>>]

\* The surface calls of a wrapper around what its inner routine did: shading
\* draws the element first and fills it after; scale and rotation set the
\* surface up, draw the element and restore the surface.
Wrapped(decorator, params, ctx, done) ==
    IF decorator = "shading"
    THEN done \o <<Event("save", decorator, Unset, ctx, Unset),
                   Event(decorator, decorator, params, ctx, Unset),
                   Event("restore", decorator, Unset, ctx, Unset)>>
    ELSE <<Event("save", decorator, Unset, ctx, Unset),
           Event(decorator, decorator, params, ctx, Unset)>>
         \o done \o <<Event("restore", decorator, Unset, ctx, Unset)>>

RECURSIVE ComposedReversed(_, _, _)
\* for modifier in self.modifiers: modified = modifier(modified)
ComposedReversed(h, modifiers, routine) ==
    IF modifiers = <<>> THEN routine
    ELSE LET m == h[modifiers[Len(modifiers)]] IN
         ComposedReversed(h, SubSeq(modifiers, 1, Len(modifiers) - 1),
                          Wrapper(m.decorator, m.params, routine))
RECURSIVE Composed(_, _, _)
Composed(h, modifiers, routine) ==
    IF modifiers = <<>> THEN routine
    ELSE LET m == h[Head(modifiers)] IN
         Composed(h, Tail(modifiers), Wrapper(m.decorator, m.params, routine))

\* ElementModifier.__call__ of every modifier, in the order of the loop.
Decorated(h, modifiers) ==
    [i \in 1..Len(modifiers) |->
        Event("decorate", h[modifiers[i]].decorator, h[modifiers[i]].params,
              Unset, Unset)]

\* for element in self.elements
ChildrenReversed(elements) == [i \in 1..Len(elements) |-> elements[Len(elements) + 1 - i]]
Children(elements) == elements

RECURSIVE draw_in_context(_, _, _, _), invoke(_, _, _, _), draw_each(_, _, _, _)
\* node.draw_in_context(ctx, cell_structure): the calls it makes, in order.
draw_in_context(h, node, ctx, cell_structure) ==
    CASE h[node].kind = "BasicElement" ->
            <<Event("routine", h[node].routine, h[node].params, ctx, cell_structure)>>
      [] h[node].kind = "EmptyElement" -> <<>>
      [] h[node].kind = "ModifiedElement" ->
            Decorated(h, h[node].modifiers)
            \o invoke(h, Composed(h, h[node].modifiers, Bound(h[node].element)),
                      ctx, cell_structure)
      [] h[node].kind = "CompositeElement" ->
            draw_each(h, Children(h[node].elements), ctx, cell_structure)
\* routine(ctx, cell_structure)
invoke(h, routine, ctx, cell_structure) ==
    IF routine.inner = <<>>
    THEN draw_in_context(h, routine.node, ctx, cell_structure)
    ELSE Wrapped(routine.decorator, routine.params, ctx,
                 invoke(h, routine.inner[1], ctx, cell_structure))
draw_each(h, elements, ctx, cell_structure) ==
    IF elements = <<>> THEN <<>>
    ELSE draw_in_context(h, Head(elements), ctx, cell_structure)
         \o draw_each(h, Tail(elements), ctx, cell_structure)

\* The surfaces and the cell geometries a caller draws with.
Surfaces == {"ctx1", "ctx2"}
CellStructures == {"cell1", "cell2"}

\* -------------------------------------------------------- target addressing

\* A Target: the slot of a node relative to the node its parent Target
\* describes, and the variant of the node. None is <<>>.
None == <<>>
Target(attribute, index, parent, type) ==
    [attribute |-> attribute, index |-> index, parent |-> parent, type |-> type]
\* The Target of the root: no slot, no parent.
RootTarget == Target(None, None, None, None)

\* The Target of a child of the node that parent describes.
Unchained(attribute, index, parent) == Target(<<attribute>>, index, None, None)
ChildTarget(attribute, index, parent) ==
    Target(<<attribute>>, index, <<parent>>, None)

RECURSIVE get_targets(_, _, _), get_targets_each(_, _, _, _, _)
\* The Targets of the leaves of a tree, the tree being at target.
get_targets(h, node, target) ==
    CASE h[node].kind \in {"BasicElement", "ElementModifier"} ->
            <<[target EXCEPT !.type = <<h[node].kind>>]>>
      [] h[node].kind = "ModifiedElement" ->
            get_targets(h, h[node].element, ChildTarget("element", None, target))
            \o get_targets_each(h, h[node].modifiers, "modifiers", target, 1)
      [] h[node].kind = "CompositeElement" ->
            get_targets_each(h, h[node].elements, "elements", target, 1)
      [] OTHER -> <<>>
\* The Targets of the leaves below the entries i, i + 1, ... of a sequence slot.
get_targets_each(h, lst, attribute, target, i) ==
    IF i > Len(lst) THEN <<>>
    ELSE get_targets(h, lst[i], ChildTarget(attribute, <<i>>, target))
         \o get_targets_each(h, lst, attribute, target, i + 1)

RECURSIVE resolve(_, _, _)
\* The node a Target describes in the tree at root, 0 if it describes none:
\* the parent chain first, then the attribute, then the index.
resolve(h, root, target) ==
    LET base == IF target.parent = None THEN root
                ELSE resolve(h, root, target.parent[1])
    IN  IF base = 0 \/ target.attribute = None THEN base
        ELSE IF target.attribute[1] = "element" THEN h[base].element
        ELSE LET lst == IF target.attribute[1] = "modifiers" THEN h[base].modifiers
                        ELSE h[base].elements
             IN  IF target.index = None \/ target.index[1] > Len(lst) THEN 0
                 ELSE lst[target.index[1]]

\* ------------------------------------------------------------ direct calls

\* A caller that holds a tree and calls one function of the two modules on it.
\* The tree may be a modifier, an EmptyElement, or hold EmptyElements: the
\* constructors take any element.
ElementLeaves == Basics \cup {EmptyV}

RECURSIVE TreesOfSize(_), ForestsOver(_, _)
\* The element trees of exactly n nodes over ElementLeaves and Modifiers.
TreesOfSize(n) ==
    IF n = 1 THEN ElementLeaves
    ELSE UNION {{ModifiedV(b, ms) : b \in TreesOfSize(n - 1 - j),
                                    ms \in [1..j -> Modifiers]} : j \in 1..(n - 2)}
         \cup UNION {{CompositeV(f) : f \in ForestsOver(n - 1, k)} : k \in 2..(n - 1)}
ForestsOver(n, k) ==
    IF k = 0 THEN (IF n = 0 THEN {<<>>} ELSE {})
    ELSE UNION {{<<e>> \o f : e \in TreesOfSize(s),
                              f \in ForestsOver(n - s, k - 1)} : s \in 1..(n - k + 1)}

\* The first argument of a direct call.
Receivers == Modifiers \cup UNION {TreesOfSize(n) : n \in 1..MaxOpNodes}
\* The second argument of add and replace.
Arguments ==
    {FreshBasic, FreshModifier, EmptyV,
     CompositeV(<<BasicV("ellipse", "p1"), FreshBasic>>)}

RECURSIVE BuildAll(_, _)
\* The caller builds every tree of a set, one after the other.
BuildAll(h, vs) ==
    IF vs = {} THEN h
    ELSE LET v == CHOOSE x \in vs : TRUE IN BuildAll(Build(h, v).h, vs \ {v})

\* The objects no other object holds in a slot: the trees the caller holds.
Roots(h) ==
    {a \in 1..Len(h) :
        \A b \in 1..Len(h) :
            /\ h[b].element # a
            /\ \A i \in 1..Len(h[b].modifiers) : h[b].modifiers[i] # a
            /\ \A i \in 1..Len(h[b].elements) : h[b].elements[i] # a}

OpsInit ==
    \E t \in Receivers :
        LET e == Build(<<>>, t) IN
        /\ heap = BuildAll(e.h, Arguments)
        /\ element = e.r
        /\ pre = t
    /\ pc = "ops"
    /\ call = NoCall
    /\ output = 0
    /\ exc = "ok"
    /\ subtrees = <<>>
    /\ pairs = <<>>
    /\ idx = 0
    /\ fired = <<>>
    /\ prev = 0
    /\ built = 0
    /\ truth = FALSE
    /\ drawn = <<>>
    /\ targets = <<>>
    /\ other = NoCaller
    /\ figure = NoFigure

\* What a direct call leaves alone.
rest == <<element, pairs, idx, fired, pre, prev, built, truth, other, figure>>

\* The call returned or raised: the caller's record of it.
Called(fn, args, r) ==
    /\ heap' = r.h
    /\ output' = r.r
    /\ exc' = r.err
    /\ call' = [fn |-> fn, args |-> args]
    /\ pc' = "end"

\* add(element, addition)
OpAdd ==
    /\ pc = "ops"
    /\ \E addition \in Roots(heap) \ {element} :
        Called("add", <<element, addition>>, add(heap, element, addition))
    /\ UNCHANGED <<subtrees, drawn, targets, rest>>

\* remove(element)
OpRemove ==
    /\ pc = "ops"
    /\ Called("remove", <<element>>, remove(heap, element))
    /\ UNCHANGED <<subtrees, drawn, targets, rest>>

\* replace(element, replacement)
OpReplace ==
    /\ pc = "ops"
    /\ \E replacement \in Roots(heap) \ {element} :
        Called("replace", <<element, replacement>>,
               replace(heap, element, replacement))
    /\ UNCHANGED <<subtrees, drawn, targets, rest>>

\* get_subtrees(element)
OpSubtrees ==
    /\ pc = "ops"
    /\ LET r == get_subtrees(heap, element) IN
        /\ subtrees' = r.out
        /\ Called("get_subtrees", <<element>>, [h |-> heap, r |-> 0, err |-> r.err])
    /\ UNCHANGED <<drawn, targets, rest>>

\* get_targets(element), after the enumeration of the same tree
OpTargets ==
    /\ pc = "ops"
    /\ LET r == get_subtrees(heap, element) IN
        /\ subtrees' = r.out
        /\ targets' = IF r.err = "ok" THEN get_targets(heap, element, RootTarget)
                      ELSE <<>>
        /\ Called("get_targets", <<element>>, [h |-> heap, r |-> 0, err |-> r.err])
    /\ UNCHANGED <<drawn, rest>>

\* element.draw_in_context(ctx, cell_structure)
OpDraw ==
    /\ pc = "ops"
    /\ IsElement(heap, element)
    /\ \E ctx \in Surfaces, cell_structure \in CellStructures :
        /\ drawn' = draw_in_context(heap, element, ctx, cell_structure)
        /\ Called("draw_in_context", <<element, ctx, cell_structure>>, Ok(heap, 0))
    /\ UNCHANGED <<subtrees, targets, rest>>

\* bool(element)
OpBool ==
    /\ pc = "ops"
    /\ truth' = Truthy(heap, element)
    /\ Called("__bool__", <<element>>, Ok(heap, 0))
    /\ UNCHANGED <<subtrees, drawn, targets, element, pairs, idx, fired, pre,
                   prev, built, other, figure>>

\* transform(element, op, loc, *args): loc is any object the caller holds, a
\* node of the tree itself included
OpTransform ==
    /\ pc = "ops"
    /\ \E loc \in 1..Len(heap) :
        \/ Called("transform", <<element, "remove", loc>>,
                  transform(heap, element, "remove", loc, <<>>))
        \/ \E op \in {"add", "replace"}, arg \in Roots(heap) \ {element} :
              Called("transform", <<element, op, loc, arg>>,
                     transform(heap, element, op, loc, <<arg>>))
    /\ UNCHANGED <<subtrees, drawn, targets, rest>>

OpsNext ==
    \/ OpAdd \/ OpRemove \/ OpReplace \/ OpSubtrees \/ OpTargets \/ OpDraw
    \/ OpBool \/ OpTransform

SpecOps == OpsInit /\ [][OpsNext]_vars

\* -------------------------------------------------------------- two callers

\* Two callers apply their Transformations to the same input tree; the steps
\* of the two calls interleave in any order. The first caller's call is Enter,
\* Iterate and Return; the second caller's call keeps its locals in other,
\* and other.mid tells whether it applied an action while the first caller was
\* between two of its steps.

\* The pairs of the two callers: the whole tree as the condition, a node of the
\* tree as the location.
ParRules(c) ==
    {r \in RulesOf(c) : r.condition = c.copy /\ r.loc \in c.copy..(c.basic - 1)}

ParInit ==
    \E t \in UNION {ElementsOfSize(n) : n \in 1..MaxParNodes} :
        LET c == CallerHeap(t) IN
        \E k \in 0..MaxRules, j \in 0..MaxOtherRules :
            \E ps \in [1..k -> ParRules(c)], qs \in [1..j -> ParRules(c)] :
                /\ heap = c.h
                /\ element = c.element
                /\ pairs = ps
                /\ other = [NoCaller EXCEPT !.pairs = qs, !.pc = "call"]
                /\ pre = t
    /\ pc = "call"
    /\ idx = 0
    /\ output = 0
    /\ exc = "ok"
    /\ fired = <<>>
    /\ subtrees = <<>>
    /\ prev = 0
    /\ call = NoCall
    /\ built = 0
    /\ truth = FALSE
    /\ drawn = <<>>
    /\ targets = <<>>
    /\ figure = NoFigure

\* What a step of the second caller leaves alone.
first == <<element, pairs, pc, idx, output, exc, fired, subtrees, pre, prev,
           call, built, truth, drawn, targets, figure>>

\* The second caller: output = copy.deepcopy(element)
OtherEnter ==
    /\ other.pc = "call"
    /\ LET c == deepcopy(heap, element) IN
        /\ heap' = c.h
        /\ other' = [other EXCEPT !.pc = "loop", !.idx = 1, !.output = c.r]
    /\ UNCHANGED first

\* The second caller: one iteration of its loop.
OtherIterate ==
    /\ other.pc = "loop"
    /\ other.idx <= Len(other.pairs)
    /\ LET rule == other.pairs[other.idx]
           subs == get_subtrees(heap, ConditionTree(other.output, element))
       IN  IF subs.err # "ok"
           THEN /\ other' = [other EXCEPT !.pc = "raised", !.exc = subs.err]
                /\ UNCHANGED heap
           ELSE IF In(heap, rule.condition, subs.out)
           THEN LET t == transform(heap, ActionTarget(other.output, element),
                                   rule.op, rule.loc, rule.args)
                IN  /\ heap' = t.h
                    /\ other' =
                         IF t.err # "ok"
                         THEN [other EXCEPT !.pc = "raised", !.exc = t.err,
                                            !.fired = Append(@, TRUE)]
                         ELSE [other EXCEPT
                                 !.output = t.r, !.idx = @ + 1,
                                 !.fired = Append(@, TRUE),
                                 !.mid = @ \/ (pc = "loop" /\ idx <= Len(pairs))]
           ELSE /\ other' = [other EXCEPT !.idx = @ + 1,
                                          !.fired = Append(@, FALSE)]
                /\ UNCHANGED heap
    /\ UNCHANGED first

\* The second caller: return output
OtherReturn ==
    /\ other.pc = "loop"
    /\ other.idx > Len(other.pairs)
    /\ other' = [other EXCEPT !.pc = "done"]
    /\ UNCHANGED <<heap, first>>

ParNext == Enter \/ Iterate \/ Return \/ OtherEnter \/ OtherIterate \/ OtherReturn

SpecPar == ParInit /\ [][ParNext]_vars

\* ------------------------------------------------- generate_sandia_figure

\* A number is <<numerator, denominator>>, the denominator positive.
Less(p, q) == p[1] * q[2] < q[1] * p[2]
Plus(p, q) == <<p[1] * q[2] + q[1] * p[2], p[2] * q[2]>>
Over(p, q) == <<p[1] * q[2], p[2] * q[1]>>

\* math.pi, to six decimal places
math_pi == <<355, 113>>

\* (k / 8) * 2 * math.pi, held as the fraction k / 8 of a full turn; math.pi
\* itself is half a turn.
Turn(k) == <<k, 8>>
HalfTurn == <<1, 2>>

\* A distribution is a dict of weights by outcome; the defaults weigh their
\* outcomes equally.
Uniform(keys) == [k \in keys |-> <<1, Cardinality(keys)>>]
\* The outcomes rd.choice can return.
Support(dist) == {k \in DOMAIN dist : dist[k][1] > 0}

\* RoutineGenerator(): self.routines and self.params[routine]
routines ==
    Uniform({"ellipse", "triangle", "rectangle", "diamond", "trapezoid", "tee"})
routine_params(routine) ==
    CASE routine \in {"ellipse", "rectangle"} ->
            [r |-> Uniform({<<2, 1>>, <<4, 1>>, <<8, 1>>})]
      [] routine = "diamond" ->
            [r |-> Uniform({<<1, 1>>, <<2, 1>>, <<4, 1>>})]
      [] routine \in {"triangle", "trapezoid", "tee"} ->
            [r |-> Uniform({<<1, 4>>, <<1, 2>>, <<1, 1>>, <<2, 1>>, <<4, 1>>})]

\* DecoratorGenerator(rotation_params=...): self.decorators and
\* self.params[decorator]
decorators ==
    Uniform({"scale", "rotation", "shading", "numerosity"})
decorator_params(decorator, rotation_params) ==
    CASE decorator = "scale" ->
            [factor |-> Uniform({<<3, 4>>, <<2, 4>>, <<1, 4>>})]
      [] decorator = "rotation" -> rotation_params
      [] decorator = "shading" ->
            [lightness |-> Uniform({<<k, 8>> : k \in 1..7})]
      [] decorator = "numerosity" ->
            [number |-> Uniform({<<k, 1>> : k \in 2..8})]

\* The rotation_params a caller gives its DecoratorGenerator: the default of
\* seven angles, or two angles of its own.
RotationParams ==
    {[angle |-> Uniform({Turn(k) : k \in 1..7})],
     [angle |-> Uniform({Turn(2), Turn(6)})]}

\* sample_params(dists=dists).pop(): one outcome for every param
sample_params(dists) ==
    {params \in [DOMAIN dists -> UNION {DOMAIN dists[q] : q \in DOMAIN dists}] :
        \A q \in DOMAIN dists : params[q] \in Support(dists[q])}

\* sample(size=size, replace=False): size different outcomes, in any order
sample_without_replacement(dist, size) ==
    {ds \in [1..size -> Support(dist)] :
        \A i, j \in 1..size : i # j => ds[i] # ds[j]}

\* sum(dist[k] for k in keys)
RECURSIVE SumOf(_, _)
SumOf(dist, keys) ==
    IF keys = {} THEN <<0, 1>>
    ELSE LET k == CHOOSE x \in keys : TRUE
         IN  Plus(dist[k], SumOf(dist, keys \ {k}))

\* restr_rot_params: the items k: v of the angle distribution with
\* v < math.pi, the weights v divided by their sum
restr_rot_params(rotation_params) ==
    LET angle == rotation_params.angle
        kept == {k \in DOMAIN angle : Less(angle[k], math_pi)}
        normalizing_ct == SumOf(angle, kept)
    IN  [angle |-> [k \in kept |-> Over(angle[k], normalizing_ct)]]

RECURSIVE PushAll(_, _, _)
\* [Class() for i in range(n)]: n new objects
PushAll(h, node, n) == IF n = 0 THEN h ELSE PushAll(Append(h, node), node, n - 1)

\* StructureGenerator.sample(), for the three outcomes it drew
sample(h, branch, composite_num, modifier_num) ==
    IF branch = "basic" THEN Push(h, BasicNode(Unset, Unset))
    ELSE IF branch = "composite"
    THEN CompositeElement(
             PushAll(h, BasicNode(Unset, Unset), composite_num),
             [i \in 1..composite_num |-> Len(h) + i])
    ELSE ModifiedElement(
             PushAll(Append(h, BasicNode(Unset, Unset)),
                     ModifierNode(Unset, Unset), modifier_num),
             [i \in 1..(modifier_num + 1) |-> Len(h) + i])

is_non_composite(h, node) == h[node].kind \in {"BasicElement", "ModifiedElement"}

RECURSIVE noncomposite_loop(_, _, _)
\* for sub in output, while output grows
noncomposite_loop(h, out, i) ==
    IF i > Len(out) THEN [out |-> out, err |-> "ok"]
    ELSE LET sub == out[i] IN
         CASE h[sub].kind \in {"BasicElement", "ElementModifier"} ->
                noncomposite_loop(h, out, i + 1)
           [] h[sub].kind = "ModifiedElement" ->
                noncomposite_loop(
                    h, out \o <<h[sub].element>> \o h[sub].modifiers, i + 1)
           [] h[sub].kind = "CompositeElement" ->
                noncomposite_loop(h, out \o h[sub].elements, i + 1)
           [] OTHER -> [out |-> <<>>, err |-> "TypeError"]

get_noncomposite_elements(h, node) ==
    LET r == noncomposite_loop(h, <<node>>, 1) IN
    [out |-> SelectSeq(r.out, LAMBDA x : is_non_composite(h, x)), err |-> r.err]

\* node == f, f a function: ElementNode.__eq__ first asks for equal types
node_eq_function(h, node, f) == h[node].kind = "function"
\* node in fs, fs a list of functions
in_functions(h, node, fs) == \E i \in 1..Len(fs) : node_eq_function(h, node, fs[i])

\* idx = lst.index(x); lst.append(lst.pop(idx)), when x in lst
moved_to_end(lst, x) ==
    IF \E i \in 1..Len(lst) : lst[i] = x
    THEN SelectSeq(lst, LAMBDA y : y # x) \o <<x>>
    ELSE lst

\* The generators are built; generate_sandia_figure is about to be called.
GenInit ==
    /\ figure \in {[NoFigure EXCEPT !.rotation_params = rp] : rp \in RotationParams}
    /\ heap = <<>>
    /\ element = 0
    /\ pc = "figure"
    /\ idx = 0
    /\ output = 0
    /\ exc = "ok"
    /\ pairs = <<>>
    /\ fired = <<>>
    /\ subtrees = <<>>
    /\ pre = EmptyV
    /\ prev = 0
    /\ call = NoCall
    /\ built = 0
    /\ truth = FALSE
    /\ drawn = <<>>
    /\ targets = <<>>
    /\ other = NoCaller

\* What generate_sandia_figure has no part in.
apart == <<pairs, fired, subtrees, pre, prev, call, built, truth, drawn,
           targets, other>>

\* The loop over noncomposite_elements moves on; after the second loop the
\* function returns element.
NextElement(next, last) ==
    IF idx < Len(figure.noncomposite_elements)
    THEN /\ idx' = idx + 1
         /\ pc' = next
         /\ output' = output
    ELSE /\ idx' = 1
         /\ pc' = last
         /\ output' = IF last = "returned" THEN element ELSE output

\* restr_rot_params, element and noncomposite_elements are computed
GenSample ==
    /\ pc = "figure"
    /\ \E branch \in {"basic", "composite", "modified"},
          composite_num \in {2, 3}, modifier_num \in {1, 2, 3} :
        LET s == sample(heap, branch, composite_num, modifier_num)
            n == get_noncomposite_elements(s.h, s.r)
        IN  /\ heap' = s.h
            /\ element' = s.r
            /\ figure' = [figure EXCEPT
                    !.restr_rot_params = restr_rot_params(figure.rotation_params),
                    !.noncomposite_elements = n.out]
            /\ exc' = n.err
            /\ pc' = IF n.err = "ok" THEN "routines" ELSE "raised"
    /\ idx' = 1
    /\ UNCHANGED <<output, apart>>

\* One iteration of the first loop: a BasicElement gets a routine and params.
GenRoutine ==
    /\ pc = "routines"
    /\ LET e == figure.noncomposite_elements[idx] IN
        IF heap[e].kind = "BasicElement"
        THEN \E routine \in Support(routines) :
                \E params \in sample_params(routine_params(routine)) :
                    heap' = [heap EXCEPT ![e].routine = routine,
                                         ![e].params = params]
        ELSE heap' = heap
    /\ NextElement("routines", "decorators")
    /\ UNCHANGED <<element, exc, figure, apart>>

\* One iteration of the second loop up to the zip: the decorators of a
\* ModifiedElement are sampled and numerosity is moved to the end.
GenDecorators ==
    /\ pc = "decorators"
    /\ LET e == figure.noncomposite_elements[idx] IN
        IF heap[e].kind = "ModifiedElement"
        THEN /\ \E ds \in sample_without_replacement(
                              decorators, Len(heap[e].modifiers)) :
                    figure' = [figure EXCEPT
                                  !.decorators = moved_to_end(ds, "numerosity"),
                                  !.zip = 1]
             /\ pc' = "modifiers"
             /\ UNCHANGED <<idx, output>>
        ELSE /\ NextElement("decorators", "returned")
             /\ UNCHANGED figure
    /\ UNCHANGED <<heap, element, exc, apart>>

\* One step of the zip: the modifier gets its decorator, and params sampled
\* from restr_rot_params or from the decorator's own distributions.
GenModifier ==
    /\ pc = "modifiers"
    /\ LET e == figure.noncomposite_elements[idx]
           modifier == heap[e].modifiers[figure.zip]
           decorator == figure.decorators[figure.zip]
           restricted == /\ in_functions(heap, heap[e].element,
                                         <<"ellipse", "rectangle">>)
                         /\ decorator = "rotation"
           dists == IF restricted THEN figure.restr_rot_params
                    ELSE decorator_params(decorator, figure.rotation_params)
       IN  /\ \E params \in sample_params(dists) :
                /\ heap' = [heap EXCEPT ![modifier].decorator = decorator,
                                        ![modifier].params = params]
                /\ figure' = [figure EXCEPT
                        !.zip = @ + 1,
                        !.sampled = Append(@,
                            [modifier |-> modifier,
                             decorator |-> decorator,
                             base |-> heap[heap[e].element].routine,
                             dists |-> IF restricted THEN "restr_rot_params"
                                       ELSE "params",
                             params |-> params])]
           /\ IF figure.zip < Len(heap[e].modifiers)
              THEN UNCHANGED <<pc, idx, output>>
              ELSE NextElement("decorators", "returned")
    /\ UNCHANGED <<element, exc, apart>>

GenNext == GenSample \/ GenRoutine \/ GenDecorators \/ GenModifier

SpecGen == GenInit /\ [][GenNext]_vars

\* =================================================================== claims

\* The objects reachable from a, a included.
RECURSIVE Reach(_, _)
Reach(h, a) ==
    {a} \cup (IF h[a].element = 0 THEN {} ELSE Reach(h, h[a].element))
        \cup UNION {Reach(h, h[a].modifiers[i]) : i \in 1..Len(h[a].modifiers)}
        \cup UNION {Reach(h, h[a].elements[i]) : i \in 1..Len(h[a].elements)}

\* The number of nodes of a tree.
RECURSIVE SizeV(_)
SumSizes(vs) ==
    LET RECURSIVE Sum(_)
        Sum(i) == IF i = 0 THEN 0 ELSE SizeV(vs[i]) + Sum(i - 1)
    IN  Sum(Len(vs))
SizeV(v) == 1 + SumSizes(v.element) + SumSizes(v.modifiers) + SumSizes(v.elements)

Returned == pc = "done"
Ended == pc \in {"done", "raised"}
\* The pair whose iteration was the last one run.
LastRule == pairs[Len(fired)]

\* ---- C1
\* C1: Transformation.__call__ never mutates its argument: in every state of a
\* call, also after it returned and after it raised, the input tree unfolds to
\* the tree it was when the call was entered.
C1_InputUnchanged == Val(heap, element) = pre

\* A call that raised in its second pair after the first pair had rewritten
\* the working copy.
C1_Witness ==
    /\ pc = "raised"
    /\ exc = "TypeError"
    /\ fired = <<TRUE, TRUE>>
    /\ Val(heap, output) # pre

\* ---- C2
ArityOK(v) ==
    \A n \in NodesV(v) :
        /\ n.kind = "ModifiedElement" => Len(n.modifiers) >= 1
        /\ n.kind = "CompositeElement" => Len(n.elements) >= 2

\* C2: every ModifiedElement of a returned tree has at least one modifier and
\* every CompositeElement of it has at least two children.
C2_ArityAfterRewrite == Returned => ArityOK(Val(heap, output))

\* A returned tree that still has inner nodes after a firing remove collapsed
\* a node of it.
C2_Witness ==
    /\ Returned
    /\ \E i \in 1..Len(pairs) : fired[i] /\ pairs[i].op = "remove"
    /\ Val(heap, output).kind \in {"ModifiedElement", "CompositeElement"}
    /\ SizeV(Val(heap, output)) < SizeV(pre)

\* ---- C3, C4: one call of transform

\* The last iteration applied its action and transform returned.
Applied == Len(fired) >= 1 /\ fired[Len(fired)] /\ pc # "raised"

\* transform(x, *action) for the last pair's action, on an object x of the
\* working copy the action was applied to: the exception, the returned tree.
TErr(x) == transform(heap, x, LastRule.op, LastRule.loc, LastRule.args).err
TVal(x) ==
    LET t == transform(heap, x, LastRule.op, LastRule.loc, LastRule.args)
    IN  Val(t.h, t.r)
\* What the node at x became: for the root, the tree __call__ bound to output.
ResultAt(x) == IF x = prev THEN Val(heap, output) ELSE TVal(x)
IsLoc(x) == Val(heap, x) = Val(heap, LastRule.loc)

CompositeCollapse(x) ==
    LET kids == heap[x].elements
        res == [i \in 1..Len(kids) |-> TVal(kids[i])]
        surv == SelectSeq(res, LAMBDA v : v.kind # "EmptyElement")
    IN  IF Len(surv) >= 2 THEN CompositeV(surv)
        ELSE IF Len(surv) = 1 THEN surv[1]
        ELSE EmptyV

\* C3: a CompositeElement that is not the location becomes the composite of
\* its children's non-empty results in their order, or the only such result,
\* or EmptyElement; and removing a from CompositeElement(a, b), a # b, gives b.
C3_CompositePropagation ==
    /\ Applied =>
        \A x \in Reach(heap, prev) :
            (/\ heap[x].kind = "CompositeElement"
             /\ ~IsLoc(x)
             /\ TErr(x) = "ok") => ResultAt(x) = CompositeCollapse(x)
    /\ \A a, b \in Basics :
        (/\ Ended
         /\ a # b
         /\ pre = CompositeV(<<a, b>>)
         /\ Len(pairs) = 1
         /\ pairs[1].op = "remove"
         /\ Val(heap, pairs[1].condition) = a
         /\ Val(heap, pairs[1].loc) = a) => (Returned /\ Val(heap, output) = b)

\* The scenario: T = ((a, (remove, a))) returned for CompositeElement(a, b).
C3_Witness ==
    /\ Returned
    /\ Len(pairs) = 1
    /\ fired = <<TRUE>>
    /\ pairs[1].op = "remove"
    /\ pre.kind = "CompositeElement"
    /\ Len(pre.elements) = 2
    /\ pre.elements[1] # pre.elements[2]
    /\ Val(heap, pairs[1].loc) = pre.elements[1]
    /\ Val(heap, output) = pre.elements[2]

ModifiedCollapse(x) ==
    LET base == TVal(heap[x].element) IN
    IF base.kind = "EmptyElement" THEN EmptyV
    ELSE LET mods == heap[x].modifiers
             res == [i \in 1..Len(mods) |-> TVal(mods[i])]
             kept == SelectSeq(res, LAMBDA v : v.kind = "ElementModifier")
         IN  IF Len(kept) = 0 THEN base ELSE ModifiedV(base, kept)

\* C4: a ModifiedElement that is not the location becomes EmptyElement when its
\* base's result is empty; else the base's result alone when no modifier's
\* result is a modifier; else the ModifiedElement of the base's result and the
\* modifier results in their order. Removing the sole modifier m of
\* ModifiedElement(b, m) gives b.
C4_ModifiedPropagation ==
    /\ Applied =>
        \A x \in Reach(heap, prev) :
            (/\ heap[x].kind = "ModifiedElement"
             /\ ~IsLoc(x)
             /\ TErr(x) = "ok") => ResultAt(x) = ModifiedCollapse(x)
    /\ \A b \in Basics, m \in Modifiers :
        (/\ Ended
         /\ pre = ModifiedV(b, <<m>>)
         /\ Len(pairs) = 1
         /\ pairs[1].op = "remove"
         /\ Val(heap, pairs[1].condition) = m
         /\ Val(heap, pairs[1].loc) = m) => (Returned /\ Val(heap, output) = b)

\* A ModifiedElement of two different modifiers lost its first one and kept the
\* second on its base.
C4_Witness ==
    /\ Returned
    /\ Len(pairs) = 1
    /\ fired = <<TRUE>>
    /\ pairs[1].op = "remove"
    /\ pre.kind = "ModifiedElement"
    /\ Len(pre.modifiers) = 2
    /\ pre.modifiers[1] # pre.modifiers[2]
    /\ Val(heap, pairs[1].loc) = pre.modifiers[1]
    /\ Val(heap, output) = ModifiedV(pre.element[1], <<pre.modifiers[2]>>)

\* ---- C5
\* C5: a pair's action is applied exactly when its condition is equal to some
\* node of the input tree as it was on entry, whatever the working copy holds.
C5_ConditionOnInput ==
    \A k \in 1..Len(fired) :
        fired[k] <=> (Val(heap, pairs[k].condition) \in NodesV(pre))

\* The second pair's condition occurs in the working copy the first pair
\* produced, not in the input, and its action was not applied.
C5_Witness ==
    /\ Returned
    /\ fired = <<TRUE, FALSE>>
    /\ Val(heap, pairs[2].condition) \in NodesV(Val(heap, output))

\* ---- C6
RECURSIVE FoldRules(_, _, _)
\* transform folded from acc over the pairs at positions order[i], order[i+1],
\* ... whose conditions held.
FoldRules(acc, order, i) ==
    IF i > Len(order) \/ acc.err # "ok" THEN acc
    ELSE LET rule == pairs[order[i]] IN
         FoldRules(IF fired[order[i]]
                   THEN transform(acc.h, acc.r, rule.op, rule.loc, rule.args)
                   ELSE acc,
                   order, i + 1)
FoldFrom(order) == FoldRules(deepcopy(heap, element), order, 1)

\* C6: the returned tree is the left fold of transform over the firing pairs
\* in the order of self.pairs, from a copy of the input; every action is
\* applied to the tree the previous iteration left.
C6_AppliedInOrder ==
    /\ Applied => (TErr(prev) = "ok" /\ Val(heap, output) = TVal(prev))
    /\ Returned =>
        LET f == FoldFrom([i \in 1..Len(pairs) |-> i]) IN
        f.err = "ok" /\ Val(f.h, f.r) = Val(heap, output)

\* Two actions were applied, and applying them in the other order would not
\* have given the returned tree.
C6_Witness ==
    /\ Returned
    /\ fired = <<TRUE, TRUE>>
    /\ LET f == FoldFrom(<<2, 1>>) IN
        f.err = "ok" /\ Val(f.h, f.r) # Val(heap, output)

\* ---- C7
NoPatternMatches ==
    \A k \in 1..Len(pairs) : Val(heap, pairs[k].condition) \notin NodesV(pre)

\* C7: when no pair's condition is equal to a node of the input tree, the call
\* does not raise and returns a tree equal to the input.
C7_NoMatchReturnsInput ==
    NoPatternMatches =>
        /\ pc # "raised"
        /\ pc # "call" => Val(heap, output) = pre

\* Two pairs whose conditions do not occur in the input, one of which would
\* have removed a node of it.
C7_Witness ==
    /\ Returned
    /\ Len(pairs) = 2
    /\ NoPatternMatches
    /\ \E k \in 1..2 : /\ pairs[k].op = "remove"
                       /\ Val(heap, pairs[k].loc) \in NodesV(pre)

\* ---- C8
\* C8: a == b is true exactly when a and b unfold to the same tree: the same
\* type, equal fields, and equal children slot by slot, whatever the objects.
C8_StructuralEquality ==
    call.fn = "__eq__" =>
        (truth <=> (Val(heap, call.args[1]) = Val(heap, call.args[2])))

\* Two composite or modified objects built by two constructor calls compared
\* equal.
C8_Witness ==
    /\ call.fn = "__eq__"
    /\ truth
    /\ call.args[1] # call.args[2]
    /\ heap[call.args[1]].kind \in {"ModifiedElement", "CompositeElement"}

\* ---- C9
\* C9: a constructor call with fewer than 2 arguments raises and creates no
\* node; with 2 or more it creates one node that stores the arguments in the
\* order given.
C9_ConstructorArity ==
    [][built' = built + 1 =>
        LET args == call'.args IN
        IF Len(args) < 2
        THEN exc' = "TypeError" /\ output' = 0 /\ heap' = heap
        ELSE /\ exc' = "ok"
             /\ Len(heap') = Len(heap) + 1
             /\ SubSeq(heap', 1, Len(heap)) = heap
             /\ output' = Len(heap')
             /\ IF call'.fn = "ModifiedElement"
                THEN /\ heap'[output'].kind = "ModifiedElement"
                     /\ heap'[output'].element = args[1]
                     /\ heap'[output'].modifiers = Tail(args)
                ELSE /\ heap'[output'].kind = "CompositeElement"
                     /\ heap'[output'].elements = args]_vars

\* ModifiedElement was called with a base and no modifier.
C9_Witness ==
    /\ call.fn = "ModifiedElement"
    /\ Len(call.args) = 1
    /\ exc = "TypeError"

\* ---- C10
\* C10: get_subtrees(a) starts with a, holds a node for every tree reachable
\* from a and for nothing else, and no two of its entries are equal.
C10_SubtreesUnique ==
    call.fn = "get_subtrees" =>
        LET a == call.args[1]
            vs == [i \in 1..Len(subtrees) |-> Val(heap, subtrees[i])]
        IN  /\ exc = "ok"
            /\ subtrees[1] = a
            /\ {vs[i] : i \in 1..Len(vs)} = NodesV(Val(heap, a))
            /\ \A i, j \in 1..Len(vs) : i # j => vs[i] # vs[j]

\* A tree two levels deep in which some node occurs twice.
C10_Witness ==
    /\ call.fn = "get_subtrees"
    /\ exc = "ok"
    /\ Len(subtrees) < SizeV(Val(heap, call.args[1]))
    /\ \E i \in 1..Len(subtrees) :
        /\ subtrees[i] # call.args[1]
        /\ heap[subtrees[i]].kind \in {"ModifiedElement", "CompositeElement"}

\* ---- C11
\* C11: get_subtrees raises only on a node outside the closed variant set; on
\* a tree of Basic, Empty, Modified and Composite elements and modifiers, one
\* that is or holds an EmptyElement included, it returns a list.
C11_SubtreesAcceptsEmpty ==
    (call.fn = "get_subtrees" /\ pc = "end") => exc = "ok"

\* ---- C12
\* The tree add(element, addition) is to return, by the variant of element and
\* the kind of addition.
AddExpected(e, a) ==
    LET aElement == a.kind \in ElementKinds
        aModifier == a.kind = "ElementModifier"
    IN  IF e.kind \in {"BasicElement", "ModifiedElement"} /\ aElement
        THEN CompositeV(<<e, a>>)
        ELSE IF e.kind \in {"BasicElement", "CompositeElement"} /\ aModifier
        THEN ModifiedV(e, <<a>>)
        ELSE IF e.kind = "CompositeElement" /\ aElement
        THEN CompositeV(e.elements \o <<a>>)
        ELSE IF e.kind = "ModifiedElement" /\ aModifier
        THEN ModifiedV(e.element[1], e.modifiers \o <<a>>)
        ELSE e

\* C12: add returns CompositeElement(element, addition) for a Basic or Modified
\* element and an Element; ModifiedElement(element, addition) for a Basic or
\* Composite element and a modifier; the composite with addition appended for a
\* Composite and an Element; the modified element with addition appended to its
\* modifiers for a Modified and a modifier; and a tree equal to element when
\* element is a modifier or an EmptyElement.
C12_AddDispatch ==
    (call.fn = "add" /\ pc = "end") =>
        /\ exc = "ok"
        /\ Val(heap, output) = AddExpected(pre, Val(heap, call.args[2]))

\* An element was appended to the children of a composite of two.
C12_Witness ==
    /\ call.fn = "add"
    /\ pc = "end"
    /\ pre.kind = "CompositeElement"
    /\ Len(pre.elements) = 2
    /\ Val(heap, call.args[2]) = FreshBasic
    /\ Val(heap, output) = CompositeV(pre.elements \o <<FreshBasic>>)

\* ---- C13
\* C13: add leaves its element argument as it was: after the call the tree of
\* element is the tree it was before it, in every dispatch case.
C13_AddKeepsElement ==
    (call.fn = "add" /\ pc = "end") => Val(heap, element) = pre

\* A call of an appending case: a modifier added to a ModifiedElement, the
\* returned tree having one modifier more than element.
C13_Witness ==
    /\ call.fn = "add"
    /\ pc = "end"
    /\ pre.kind = "ModifiedElement"
    /\ heap[call.args[2]].kind = "ElementModifier"
    /\ Len(heap[output].modifiers) = Len(pre.modifiers) + 1
    /\ output # element

\* ---- C14
\* The last iteration applied a replace action whose location occurs in the
\* working copy, so that replace was called.
ReplaceCalled ==
    /\ Len(fired) >= 1
    /\ fired[Len(fired)]
    /\ LastRule.op = "replace"
    /\ Val(heap, LastRule.loc) \in NodesV(Val(heap, prev))

\* The location and the replacement differ in capability.
Mismatch ==
    LET loc == LastRule.loc
        replacement == LastRule.args[1]
    IN  \/ IsElement(heap, loc) /\ ~IsElement(heap, replacement)
        \/ IsModifier(heap, loc) /\ ~IsModifier(heap, replacement)

\* A tree with every outermost occurrence of loc exchanged for replacement.
RECURSIVE Exchanged(_, _, _)
Exchanged(v, loc, replacement) ==
    IF v = loc THEN replacement
    ELSE [v EXCEPT
            !.element = [i \in 1..Len(@) |-> Exchanged(@[i], loc, replacement)],
            !.modifiers = [i \in 1..Len(@) |-> Exchanged(@[i], loc, replacement)],
            !.elements = [i \in 1..Len(@) |-> Exchanged(@[i], loc, replacement)]]

\* C14: replace raises TypeError when an Element is to be replaced by a
\* non-Element or a modifier by a non-modifier, and the error ends __call__
\* with no tree returned; in every other case replace returns the replacement
\* object, which takes the place of the location in the tree.
C14_ReplaceCapability ==
    ReplaceCalled =>
        IF Mismatch
        THEN /\ pc = "raised"
             /\ exc = "TypeError"
             /\ output = prev
        ELSE /\ pc # "raised"
             /\ LastRule.args[1] \in Reach(heap, output)
             /\ Val(heap, output) =
                    Exchanged(Val(heap, prev), Val(heap, LastRule.loc),
                              Val(heap, LastRule.args[1]))

\* The only pair was to replace a modifier of the input by a basic element,
\* and the call raised.
C14_Witness ==
    /\ pc = "raised"
    /\ exc = "TypeError"
    /\ fired = <<TRUE>>
    /\ pairs[1].op = "replace"
    /\ heap[pairs[1].loc].kind = "ElementModifier"
    /\ heap[pairs[1].args[1]].kind = "BasicElement"

\* ---- C15
\* Every slot of a tree holds a node of the slot's kind.
WellTyped(v) ==
    \A n \in NodesV(v) :
        /\ \A i \in 1..Len(n.element) : n.element[i].kind \in ElementKinds
        /\ \A i \in 1..Len(n.modifiers) : n.modifiers[i].kind = "ElementModifier"
        /\ \A i \in 1..Len(n.elements) : n.elements[i].kind \in ElementKinds

\* C15: every tree transform returns for add, remove or replace on a
\* well-typed tree is well-typed: the base of a ModifiedElement and the
\* children of a CompositeElement are Elements, the entries of a modifier
\* sequence are ElementModifiers.
C15_WellTypedResult ==
    pc \in {"loop", "done"} => WellTyped(Val(heap, output))

\* A modifier was removed from a ModifiedElement that kept another one: the
\* EmptyElement remove returned took no modifier slot.
C15_Witness ==
    /\ Returned
    /\ fired = <<TRUE>>
    /\ pairs[1].op = "remove"
    /\ heap[pairs[1].loc].kind = "ElementModifier"
    /\ heap[output].kind = "ModifiedElement"
    /\ Len(heap[output].modifiers) < Len(pre.modifiers)

\* ---- C16
\* C16: the returned tree is fresh: no object of it is an object of the input
\* tree, so that no in-place change of the returned tree can reach the input.
C16_ResultSharesNothing ==
    Returned => Reach(heap, output) \cap Reach(heap, element) = {}

\* ---- C17
RECURSIVE AloneFrom(_, _, _, _)
\* The loop of __call__ run to its end with no other caller, from pair i on.
AloneFrom(acc, elt, ps, i) ==
    IF i > Len(ps) \/ acc.err # "ok" THEN acc
    ELSE LET subs == get_subtrees(acc.h, elt) IN
         IF subs.err # "ok" THEN Raise(acc.h, subs.err)
         ELSE IF In(acc.h, ps[i].condition, subs.out)
         THEN AloneFrom(transform(acc.h, acc.r, ps[i].op, ps[i].loc, ps[i].args),
                        elt, ps, i + 1)
         ELSE AloneFrom(acc, elt, ps, i + 1)

\* What a caller obtains for its pairs when it is the only caller, on the heap
\* the two callers started from: the exception, the returned tree.
Alone(ps) ==
    LET h0 == CallerHeap(pre).h
        a == AloneFrom(deepcopy(h0, element), element, ps, 1)
    IN  [err |-> a.err, tree |-> IF a.err = "ok" THEN Val(a.h, a.r) ELSE EmptyV]

\* The outcome a caller has got: the exception, the returned tree.
Outcome(p, e, out) ==
    [err |-> e, tree |-> IF p = "done" THEN Val(heap, out) ELSE EmptyV]

\* C17: however the steps of two calls on the same input tree interleave, each
\* caller ends with the outcome it has when it is the only caller, and the
\* input tree is unchanged.
C17_InterleavingInvisible ==
    /\ pc \in {"done", "raised"} => Outcome(pc, exc, output) = Alone(pairs)
    /\ other.pc \in {"done", "raised"} =>
            Outcome(other.pc, other.exc, other.output) = Alone(other.pairs)
    /\ Val(heap, element) = pre

\* Both callers returned; the second applied its action between two steps of
\* the first, which applied two, and the two returned trees differ.
C17_Witness ==
    /\ pc = "done"
    /\ other.pc = "done"
    /\ other.mid
    /\ fired = <<TRUE, TRUE>>
    /\ other.fired = <<TRUE>>
    /\ Val(heap, output) # Val(heap, other.output)
    /\ Val(heap, output) # pre
    /\ Val(heap, other.output) # pre

\* ---- C18
\* C18: for every leaf the enumeration of a tree finds, get_targets gives a
\* Target of the leaf's variant that resolves in the tree to a node equal to
\* the leaf.
C18_TargetRoundTrip ==
    (call.fn = "get_targets" /\ exc = "ok") =>
        \A i \in 1..Len(subtrees) :
            heap[subtrees[i]].kind \in {"BasicElement", "ElementModifier"} =>
                \E j \in 1..Len(targets) :
                    LET n == resolve(heap, element, targets[j]) IN
                    /\ n # 0
                    /\ targets[j].type = <<heap[subtrees[i]].kind>>
                    /\ Val(heap, n) = Val(heap, subtrees[i])

\* The Targets of a tree two levels deep with a modifier below its top level.
C18_Witness ==
    /\ call.fn = "get_targets"
    /\ exc = "ok"
    /\ \E j \in 1..Len(targets) :
        /\ targets[j].type = <<"ElementModifier">>
        /\ targets[j].parent # None
        /\ targets[j].parent[1].parent # None

\* ---- C19, C20: drawing
Drew == call.fn = "draw_in_context" /\ pc = "end"

RECURSIVE Nested(_, _, _, _)
\* The calls of the routine composed of the first i modifiers of a modifier
\* sequence around a routine that makes the calls inner: modifier i outermost.
Nested(ms, i, ctx, inner) ==
    IF i = 0 THEN inner
    ELSE Wrapped(ms[i].decorator, ms[i].params, ctx, Nested(ms, i - 1, ctx, inner))

RECURSIVE Drawing(_, _, _)
\* The calls drawing a tree is to make on a surface with a cell geometry.
Drawing(v, ctx, cell_structure) ==
    CASE v.kind = "BasicElement" ->
            <<Event("routine", v.routine, v.params, ctx, cell_structure)>>
      [] v.kind = "EmptyElement" -> <<>>
      [] v.kind = "ModifiedElement" ->
            [i \in 1..Len(v.modifiers) |->
                Event("decorate", v.modifiers[i].decorator, v.modifiers[i].params,
                      Unset, Unset)]
            \o Nested(v.modifiers, Len(v.modifiers), ctx,
                      Drawing(v.element[1], ctx, cell_structure))
      [] v.kind = "CompositeElement" ->
            LET RECURSIVE From(_)
                From(i) == IF i > Len(v.elements) THEN <<>>
                           ELSE Drawing(v.elements[i], ctx, cell_structure)
                                \o From(i + 1)
            IN  From(1)

\* C19: drawing a ModifiedElement calls the decorator of each modifier once, in
\* sequence order and with that modifier's params, and then invokes once,
\* with the surface and the cell geometry given, the routine in which the
\* first modifier wraps the base element's drawing and the last is outermost.
C19_ModifiersWrapInOrder ==
    (Drew /\ pre.kind = "ModifiedElement") =>
        LET ctx == call.args[2]
            cell_structure == call.args[3]
            n == Len(pre.modifiers)
        IN  /\ SubSeq(drawn, 1, n) =
                    [i \in 1..n |-> Event("decorate", pre.modifiers[i].decorator,
                                          pre.modifiers[i].params, Unset, Unset)]
            /\ SubSeq(drawn, n + 1, Len(drawn)) =
                    Nested(pre.modifiers, n, ctx,
                           Drawing(pre.element[1], ctx, cell_structure))

\* A basic element under two different modifiers was drawn.
C19_Witness ==
    /\ Drew
    /\ pre.kind = "ModifiedElement"
    /\ Len(pre.modifiers) = 2
    /\ pre.modifiers[1] # pre.modifiers[2]
    /\ pre.element[1].kind = "BasicElement"
    /\ Len(drawn) = 9

\* C20: drawing a CompositeElement draws every child once, in the order of the
\* child list, each with the surface and the cell geometry given; drawing an
\* EmptyElement makes no call, and an EmptyElement is false.
C20_ChildrenDrawnInOrder ==
    /\ (Drew /\ pre.kind = "CompositeElement") =>
        LET RECURSIVE From(_)
            From(i) == IF i > Len(pre.elements) THEN <<>>
                       ELSE Drawing(pre.elements[i], call.args[2], call.args[3])
                            \o From(i + 1)
        IN  drawn = From(1)
    /\ (Drew /\ pre = EmptyV) => drawn = <<>>
    /\ (call.fn = "__bool__" /\ pre = EmptyV) => ~truth

\* A composite of two different basic elements was drawn.
C20_Witness ==
    /\ Drew
    /\ pre.kind = "CompositeElement"
    /\ Len(pre.elements) = 2
    /\ pre.elements[1].kind = "BasicElement"
    /\ pre.elements[2].kind = "BasicElement"
    /\ pre.elements[1] # pre.elements[2]
    /\ Len(drawn) = 2

\* ---- C21
\* A direct call of transform ended; its operation, and the trees of its
\* location and of its argument (remove takes none).
TransformCalled == call.fn = "transform" /\ pc = "end"
TransformOp == call.args[2]
TransformLoc == Val(heap, call.args[3])
TransformArg == IF Len(call.args) > 3 THEN Val(heap, call.args[4]) ELSE EmptyV

\* A tree without EmptyElement.
NoEmpty(v) == EmptyV \notin NodesV(v)

\* The tree op is to return for a node v.
OpExpected(op, v, arg) ==
    CASE op = "add" -> AddExpected(v, arg)
      [] op = "remove" -> EmptyV
      [] op = "replace" -> arg

\* A surviving element: an Element other than EmptyElement.
SurvivesV(v) == v.kind \in ElementKinds /\ v.kind # "EmptyElement"

\* The tree with op applied once at every occurrence of loc and the collapse
\* rules applied on the way up: a ModifiedElement whose base did not survive
\* is EmptyElement, one that kept no modifier is its base; a CompositeElement
\* keeps the surviving children, and is its child when one is left and
\* EmptyElement when none is.
RECURSIVE Rewritten(_, _, _, _)
Rewritten(v, op, loc, arg) ==
    IF v = loc THEN OpExpected(op, v, arg)
    ELSE CASE v.kind = "ModifiedElement" ->
                LET b == Rewritten(v.element[1], op, loc, arg)
                    ms == SelectSeq(
                              [i \in 1..Len(v.modifiers) |->
                                  Rewritten(v.modifiers[i], op, loc, arg)],
                              LAMBDA m : m.kind = "ElementModifier")
                IN  IF ~SurvivesV(b) THEN EmptyV
                    ELSE IF ms = <<>> THEN b
                    ELSE ModifiedV(b, ms)
           [] v.kind = "CompositeElement" ->
                LET es == SelectSeq(
                              [i \in 1..Len(v.elements) |->
                                  Rewritten(v.elements[i], op, loc, arg)],
                              SurvivesV)
                IN  IF Len(es) > 1 THEN CompositeV(es)
                    ELSE IF Len(es) = 1 THEN es[1]
                    ELSE EmptyV
           [] OTHER -> v

\* replace is to raise at an occurrence of loc: the replacement has not the
\* capability of the location.
RaisesAtLoc ==
    /\ TransformOp = "replace"
    /\ TransformLoc \in NodesV(pre)
    /\ (TransformLoc.kind \in ElementKinds) # (TransformArg.kind \in ElementKinds)

\* C21: transform(element, op, loc, *args) on a tree without EmptyElement
\* applies op once to every node equal to loc, at any depth, and puts op's
\* result in the node's place, subject to the collapse rules; basic elements
\* and modifiers that are not equal to loc pass through unchanged.
C21_EveryOccurrenceOnce ==
    (TransformCalled /\ NoEmpty(pre)) =>
        IF RaisesAtLoc THEN exc = "TypeError"
        ELSE /\ exc = "ok"
             /\ Val(heap, output) =
                    Rewritten(pre, TransformOp, TransformLoc, TransformArg)

\* transform added to a location that is a child of the root and also lies
\* deeper, inside another child of the root.
C21_Witness ==
    /\ TransformCalled
    /\ exc = "ok"
    /\ TransformOp = "add"
    /\ NoEmpty(pre)
    /\ pre.kind = "CompositeElement"
    /\ \E i, j \in 1..Len(pre.elements) :
        /\ pre.elements[i] = TransformLoc
        /\ TransformLoc \in NodesV(pre.elements[j]) \ {pre.elements[j]}
    /\ Val(heap, output) # pre

\* ---- C22
\* Every replacement of the rules has the capability of its location.
WellTypedRules ==
    \A k \in 1..Len(pairs) :
        pairs[k].op = "replace" =>
            IsElement(heap, pairs[k].loc) = IsElement(heap, pairs[k].args[1])

\* C22: a Transformation of add, remove and replace rules with well-typed
\* arguments returns a tree for every well-formed input and never raises,
\* also when an earlier rule has reduced the working copy to EmptyElement
\* before a later rule's action is applied to it.
C22_NeverRaises ==
    WellTypedRules => pc # "raised"

\* ---- C23
\* A direct call transform(element, remove, loc) on a tree without
\* EmptyElement returned.
RemoveCalled ==
    /\ TransformCalled
    /\ TransformOp = "remove"
    /\ NoEmpty(pre)
    /\ exc = "ok"

\* C23 as stated: after transform(E, remove, loc) the returned tree holds no
\* subtree equal to loc, whatever loc is; collapsing never re-creates it.
C23_RemovedIsGone ==
    RemoveCalled => TransformLoc \notin NodesV(Val(heap, output))

\* C23, amended: after transform(E, remove, loc) with loc a basic element or
\* a modifier, the returned tree holds no subtree equal to loc.
C23_RemovedLeafIsGone ==
    (RemoveCalled /\ TransformLoc.kind \in {"BasicElement", "ElementModifier"})
        => TransformLoc \notin NodesV(Val(heap, output))

\* A leaf was removed from inside a child of the root, and a tree was left.
C23_Witness ==
    /\ RemoveCalled
    /\ TransformLoc.kind \in {"BasicElement", "ElementModifier"}
    /\ \E i \in 1..Len(pre.elements) :
        TransformLoc \in NodesV(pre.elements[i]) \ {pre.elements[i]}
    /\ Val(heap, output) # EmptyV
    /\ Val(heap, output) # pre

\* ---- C24
\* The number of ModifiedElement and CompositeElement nodes of a tree: the
\* nodes transform rebuilds when it meets no occurrence of loc.
RECURSIVE InnerNodes(_), InnerSum(_)
InnerSum(vs) ==
    IF vs = <<>> THEN 0 ELSE InnerNodes(Head(vs)) + InnerSum(Tail(vs))
InnerNodes(v) ==
    (IF v.kind \in {"ModifiedElement", "CompositeElement"} THEN 1 ELSE 0)
    + InnerSum(v.element) + InnerSum(v.modifiers) + InnerSum(v.elements)

\* The objects the caller of a direct call held before the call.
HeldBefore == BuildAll(Build(<<>>, pre).h, Arguments)

\* A direct call of transform on a tree without EmptyElement that holds no
\* node equal to loc.
AbsentLoc ==
    /\ TransformCalled
    /\ NoEmpty(pre)
    /\ TransformLoc \notin NodesV(pre)

\* C24: when no subtree of a well-formed tree E is equal to loc,
\* transform(E, op, loc, *args) returns a tree equal to E for every op and
\* does not call op: nothing is raised, no object the caller held is changed,
\* and the only new objects are the rebuilt Modified and Composite nodes.
C24_AbsentLocChangesNothing ==
    AbsentLoc =>
        /\ exc = "ok"
        /\ Val(heap, output) = pre
        /\ Len(heap) = Len(HeldBefore) + InnerNodes(pre)
        /\ SubSeq(heap, 1, Len(HeldBefore)) = HeldBefore

\* transform was to replace an absent modifier by an element, which replace
\* refuses, in a tree of two levels of inner nodes.
C24_Witness ==
    /\ AbsentLoc
    /\ TransformOp = "replace"
    /\ TransformLoc.kind = "ElementModifier"
    /\ TransformArg.kind = "BasicElement"
    /\ pre.kind = "ModifiedElement"
    /\ pre.element[1].kind = "CompositeElement"
    /\ exc = "ok"

\* ---- C25
\* The proper subtrees of a tree.
ProperNodesV(v) ==
    UNION {NodesV(v.element[i]) : i \in 1..Len(v.element)}
    \cup UNION {NodesV(v.modifiers[i]) : i \in 1..Len(v.modifiers)}
    \cup UNION {NodesV(v.elements[i]) : i \in 1..Len(v.elements)}

\* C25: with an input tree and rule arguments that hold no EmptyElement,
\* EmptyElement is never a proper subtree of the tree __call__ has built or
\* returns; it occurs only as the whole tree, when everything was removed.
C25_EmptyOnlyAsWhole ==
    pc \in {"loop", "done"} => EmptyV \notin ProperNodesV(Val(heap, output))

\* __call__ returned EmptyElement for a composite input: a rule removed every
\* child.
C25_Witness ==
    /\ Returned
    /\ NoEmpty(pre)
    /\ pre.kind = "CompositeElement"
    /\ Val(heap, output) = EmptyV
    /\ \E k \in 1..Len(pairs) :
        /\ pairs[k].op = "remove"
        /\ fired[k]
        /\ heap[pairs[k].loc].kind = "BasicElement"

\* ---- C26
\* An angle smaller than pi: less than half a turn.
BelowPi(angle) == Less(angle, HalfTurn)

\* C26: in generate_sandia_figure, a modifier that is assigned the rotation
\* decorator gets its angle from the restricted rotation distribution when
\* the base of its ModifiedElement draws an ellipse or a rectangle, and the
\* restricted distribution holds only angles smaller than pi; for every
\* other base the angle is sampled from the full rotation distribution.
C26_RestrictedRotation ==
    \A i \in 1..Len(figure.sampled) :
        LET s == figure.sampled[i] IN
        s.decorator = "rotation" =>
            IF s.base \in {"ellipse", "rectangle"}
            THEN /\ s.dists = "restr_rot_params"
                 /\ \A k \in DOMAIN figure.restr_rot_params.angle : BelowPi(k)
                 /\ BelowPi(s.params.angle)
            ELSE s.dists = "params"

====
